---- MODULE Spec2Model ----
(***************************************************************************)
(* A model of the redis-client crate (src/src/lib.rs): the command         *)
(* builder Cmd, the request encoder Cmd::create_command, the reply decoder *)
(* parse_response and the transport step Client::execute.                  *)
(*                                                                         *)
(* Bytes are numbers 0..255, byte buffers and Strings are sequences of     *)
(* bytes (a String is a buffer that is valid UTF-8).  An i64 or i32 is a   *)
(* record [neg, mag]: a sign and the decimal digits of the magnitude       *)
(* without leading zeros (<<0>> for zero), so that the full 64-bit range   *)
(* is represented exactly.                                                 *)
(***************************************************************************)
EXTENDS Integers, Sequences, FiniteSets, TLC

VARIABLES pc, args, sent, frame, reply, buff, result

vars == <<pc, args, sent, frame, reply, buff, result>>

(***************************************************************************)
(* Program constants.                                                      *)
(***************************************************************************)
BULK_STRING_BYTE == 36
INTEGER_BYTE == 58
SIMPLE_STRING_BYTE == 43
ERROR_STRING_BYTE == 45
ARRAYS_BYTE == 42
\* b'\n', the delimiter of lines(), read_line() and split(b'\n')
LF == 10
\* '\r', written by create_command and stripped by lines()
CR == 13
\* vec![0; 1024]: the size of the one read buffer of Client::execute
BuffSize == 1024
\* the byte the read buffer is filled with
FillByte == 0
\* '+', '-' and '0' as from_str reads them
PlusSign == 43
MinusSign == 45
Digit0 == 48

CRLF == <<CR, LF>>

(***************************************************************************)
(* Results: Ok(value), Err(error), or a panic (unwrap on None).            *)
(***************************************************************************)
Ok(v) == [kind |-> "Ok", val |-> v]
Err(e) == [kind |-> "Err", err |-> e]
Panic == [kind |-> "Panic"]
NoResult == [kind |-> "None"]

\* enum Values
SimpleString(s) == [tag |-> "SimpleString", s |-> s]
Errors(s) == [tag |-> "Errors", s |-> s]
Integers(n) == [tag |-> "Integers", n |-> n]
BulkString(s) == [tag |-> "BulkString", s |-> s]
Arrays(v) == [tag |-> "Arrays", v |-> v]

(***************************************************************************)
(* Integers as sign and magnitude digits.                                  *)
(***************************************************************************)
I64MaxMag == <<9,2,2,3,3,7,2,0,3,6,8,5,4,7,7,5,8,0,7>>
I64MinMag == <<9,2,2,3,3,7,2,0,3,6,8,5,4,7,7,5,8,0,8>>
I32MaxMag == <<2,1,4,7,4,8,3,6,4,7>>
I32MinMag == <<2,1,4,7,4,8,3,6,4,8>>

\* a <= b for magnitudes without leading zeros
MagLeq(a, b) ==
    \/ Len(a) < Len(b)
    \/ /\ Len(a) = Len(b)
       /\ \/ a = b
          \/ \E i \in 1..Len(a) :
                /\ a[i] < b[i]
                /\ \A j \in 1..(i - 1) : a[j] = b[j]

\* result * 10 + d on a magnitude
MagPush(m, d) == IF m = <<0>> THEN <<d>> ELSE Append(m, d)

IsDigit(c) == c \in Digit0..(Digit0 + 9)

\* The digit loop of from_str_radix: each character must be a digit, and
\* the checked multiply-and-add must stay within the type's range.
RECURSIVE ParseDigits(_, _, _, _, _)
ParseDigits(s, i, neg, acc, lim) ==
    IF i > Len(s) THEN Ok([neg |-> neg /\ acc # <<0>>, mag |-> acc])
    ELSE IF ~IsDigit(s[i]) THEN Err("ParseIntError:InvalidDigit")
    ELSE LET nxt == MagPush(acc, s[i] - Digit0)
         IN  IF ~MagLeq(nxt, lim)
             THEN Err(IF neg THEN "ParseIntError:NegOverflow"
                             ELSE "ParseIntError:PosOverflow")
             ELSE ParseDigits(s, i + 1, neg, nxt, lim)

\* <signed integer>::from_str: empty input, an optional sign, the digits
ParseInt(s, maxMag, minMag) ==
    IF Len(s) = 0 THEN Err("ParseIntError:Empty")
    ELSE IF s[1] \in {PlusSign, MinusSign} /\ Len(s) = 1
         THEN Err("ParseIntError:InvalidDigit")
    ELSE IF s[1] = PlusSign THEN ParseDigits(s, 2, FALSE, <<0>>, maxMag)
    ELSE IF s[1] = MinusSign THEN ParseDigits(s, 2, TRUE, <<0>>, minMag)
    ELSE ParseDigits(s, 1, FALSE, <<0>>, maxMag)

\* the integer line parsed as an i32
ParseI64Narrow(s) == ParseInt(s, I32MaxMag, I32MinMag)

ParseI64(s) == ParseInt(s, I64MaxMag, I64MinMag)
ParseI32(s) == ParseInt(s, I32MaxMag, I32MinMag)

\* usize::to_string as format!("{}", len) writes it
RECURSIVE NatToBytes(_)
NatToBytes(n) ==
    IF n < 10 THEN <<Digit0 + n>>
    ELSE Append(NatToBytes(n \div 10), Digit0 + (n % 10))

(***************************************************************************)
(* String::from_utf8 as read_line and lines() apply it.                    *)
(***************************************************************************)
IsCont(b) == b \in 128..191

\* bytes of the character a lead byte starts; 0: not a lead byte
Utf8Width(b) ==
    IF b < 128 THEN 1
    ELSE IF b \in 194..223 THEN 2
    ELSE IF b \in 224..239 THEN 3
    ELSE IF b \in 240..244 THEN 4
    ELSE 0

\* the second byte a lead byte admits (no overlong forms, no surrogates)
Utf8Second(b) ==
    IF b = 224 THEN 160..191
    ELSE IF b = 237 THEN 128..159
    ELSE IF b = 240 THEN 144..191
    ELSE IF b = 244 THEN 128..143
    ELSE 128..191

Utf8LeadOk(s, i) ==
    LET w == Utf8Width(s[i])
    IN  /\ w >= 1
        /\ i + w - 1 <= Len(s)
        /\ w >= 2 => s[i + 1] \in Utf8Second(s[i])
        /\ \A k \in 2..(w - 1) : IsCont(s[i + k])

Utf8Covered(s, i) ==
    \E d \in 1..3 :
        /\ i - d >= 1
        /\ Utf8Width(s[i - d]) > d
        /\ \A k \in 1..(d - 1) : IsCont(s[i - k])

Utf8Valid(s) ==
    \A i \in 1..Len(s) :
        IF IsCont(s[i]) THEN Utf8Covered(s, i) ELSE Utf8LeadOk(s, i)

\* the code point of the character that starts at byte i of a String
CodePoint(s, i) ==
    LET w == Utf8Width(s[i])
    IN  IF w = 2 THEN (s[i] - 192) * 64 + (s[i + 1] - 128)
        ELSE IF w = 3
             THEN (s[i] - 224) * 4096 + (s[i + 1] - 128) * 64 + (s[i + 2] - 128)
        ELSE IF w = 4
             THEN (s[i] - 240) * 262144 + (s[i + 1] - 128) * 4096
                  + (s[i + 2] - 128) * 64 + (s[i + 3] - 128)
        ELSE s[i]

\* the byte at which the character holding byte i of a String starts
CharStart(s, i) ==
    IF ~IsCont(s[i]) THEN i
    ELSE IF ~IsCont(s[i - 1]) THEN i - 1
    ELSE IF ~IsCont(s[i - 2]) THEN i - 2
    ELSE i - 3

\* the code points above U+007F of the general categories Nd, Nl and No,
\* as ranges <<first, last>>: the table of the standard library's Unicode
\* data (Unicode 17.0, rustc 1.95)
NumericRanges ==
    {<<178, 179>>, <<185, 185>>, <<188, 190>>, <<1632, 1641>>,
     <<1776, 1785>>, <<1984, 1993>>, <<2406, 2415>>, <<2534, 2543>>,
     <<2548, 2553>>, <<2662, 2671>>, <<2790, 2799>>, <<2918, 2927>>,
     <<2930, 2935>>, <<3046, 3058>>, <<3174, 3183>>, <<3192, 3198>>,
     <<3302, 3311>>, <<3416, 3422>>, <<3430, 3448>>, <<3558, 3567>>,
     <<3664, 3673>>, <<3792, 3801>>, <<3872, 3891>>, <<4160, 4169>>,
     <<4240, 4249>>, <<4969, 4988>>, <<5870, 5872>>, <<6112, 6121>>,
     <<6128, 6137>>, <<6160, 6169>>, <<6470, 6479>>, <<6608, 6618>>,
     <<6784, 6793>>, <<6800, 6809>>, <<6992, 7001>>, <<7088, 7097>>,
     <<7232, 7241>>, <<7248, 7257>>, <<8304, 8304>>, <<8308, 8313>>,
     <<8320, 8329>>, <<8528, 8578>>, <<8581, 8585>>, <<9312, 9371>>,
     <<9450, 9471>>, <<10102, 10131>>, <<11517, 11517>>, <<12295, 12295>>,
     <<12321, 12329>>, <<12344, 12346>>, <<12690, 12693>>,
     <<12832, 12841>>, <<12872, 12879>>, <<12881, 12895>>,
     <<12928, 12937>>, <<12977, 12991>>, <<42528, 42537>>,
     <<42726, 42735>>, <<43056, 43061>>, <<43216, 43225>>,
     <<43264, 43273>>, <<43472, 43481>>, <<43504, 43513>>,
     <<43600, 43609>>, <<44016, 44025>>, <<65296, 65305>>,
     <<65799, 65843>>, <<65856, 65912>>, <<65930, 65931>>,
     <<66273, 66299>>, <<66336, 66339>>, <<66369, 66369>>,
     <<66378, 66378>>, <<66513, 66517>>, <<66720, 66729>>,
     <<67672, 67679>>, <<67705, 67711>>, <<67751, 67759>>,
     <<67835, 67839>>, <<67862, 67867>>, <<68028, 68029>>,
     <<68032, 68047>>, <<68050, 68095>>, <<68160, 68168>>,
     <<68221, 68222>>, <<68253, 68255>>, <<68331, 68335>>,
     <<68440, 68447>>, <<68472, 68479>>, <<68521, 68527>>,
     <<68858, 68863>>, <<68912, 68921>>, <<68928, 68937>>,
     <<69216, 69246>>, <<69405, 69414>>, <<69457, 69460>>,
     <<69573, 69579>>, <<69714, 69743>>, <<69872, 69881>>,
     <<69942, 69951>>, <<70096, 70105>>, <<70113, 70132>>,
     <<70384, 70393>>, <<70736, 70745>>, <<70864, 70873>>,
     <<71248, 71257>>, <<71360, 71369>>, <<71376, 71395>>,
     <<71472, 71483>>, <<71904, 71922>>, <<72016, 72025>>,
     <<72688, 72697>>, <<72784, 72812>>, <<73040, 73049>>,
     <<73120, 73129>>, <<73184, 73193>>, <<73552, 73561>>,
     <<73664, 73684>>, <<74752, 74862>>, <<90416, 90425>>,
     <<92768, 92777>>, <<92864, 92873>>, <<93008, 93017>>,
     <<93019, 93025>>, <<93552, 93561>>, <<93824, 93846>>,
     <<94196, 94198>>, <<118000, 118009>>, <<119488, 119507>>,
     <<119520, 119539>>, <<119648, 119672>>, <<120782, 120831>>,
     <<123200, 123209>>, <<123632, 123641>>, <<124144, 124153>>,
     <<124401, 124410>>, <<125127, 125135>>, <<125264, 125273>>,
     <<126065, 126123>>, <<126125, 126127>>, <<126129, 126132>>,
     <<126209, 126253>>, <<126255, 126269>>, <<127232, 127244>>,
     <<130032, 130041>>}

\* char::is_numeric on a code point
IsNumeric(c) ==
    IF c < 128 THEN IsDigit(c)
    ELSE \E r \in NumericRanges : r[1] <= c /\ c <= r[2]

\* line.chars().filter(|c| c.is_numeric()).collect::<String>(): the bytes
\* of the numeric characters of a String, in order
FilterNumeric(s) ==
    LET keep(i) == IsNumeric(CodePoint(s, CharStart(s, i)))
        kept == SelectSeq([i \in 1..Len(s) |-> i], keep)
    IN  [k \in 1..Len(kept) |-> s[kept[k]]]

(***************************************************************************)
(* Cursor<&mut Vec<u8>> as a buffer and the count of bytes consumed.       *)
(***************************************************************************)
MinOf(S) == CHOOSE x \in S : \A y \in S : x <= y

\* BufRead::read_until: the bytes up to and including the delimiter, or to
\* the end of the buffer
ReadUntil(buf, pos, delim) ==
    LET hits == {i \in (pos + 1)..Len(buf) : buf[i] = delim}
        end == IF hits = {} THEN Len(buf) ELSE MinOf(hits)
    IN  [bytes |-> SubSeq(buf, pos + 1, end), pos |-> end]

DropLast(s) == SubSeq(s, 1, Len(s) - 1)

\* Lines::next strips one "\n" and then one "\r" before it
StripLineEnd(s) ==
    IF Len(s) > 0 /\ s[Len(s)] = LF
    THEN LET t == DropLast(s)
         IN  IF Len(t) > 0 /\ t[Len(t)] = CR THEN DropLast(t) ELSE t
    ELSE s

\* BufRead::read_line
ReadLine(buf, pos) ==
    LET r == ReadUntil(buf, pos, LF)
    IN  [res |-> IF Utf8Valid(r.bytes) THEN Ok(r.bytes)
                 ELSE Err("InvalidData:utf8"),
         pos |-> r.pos]

\* Lines::next: None at the end of the buffer
LinesNext(buf, pos) ==
    LET r == ReadLine(buf, pos)
    IN  IF r.pos = pos THEN [some |-> FALSE, pos |-> pos]
        ELSE [some |-> TRUE,
              res |-> IF r.res.kind = "Ok" THEN Ok(StripLineEnd(r.res.val))
                      ELSE r.res,
              pos |-> r.pos]

\* Split::next: None at the end of the buffer, the delimiter dropped
SplitNext(buf, pos, delim) ==
    LET r == ReadUntil(buf, pos, delim)
    IN  IF r.pos = pos THEN [some |-> FALSE, pos |-> pos]
        ELSE [some |-> TRUE,
              bytes |-> IF r.bytes[Len(r.bytes)] = delim
                        THEN DropLast(r.bytes) ELSE r.bytes,
              pos |-> r.pos]

RECURSIVE MagToNat(_)
MagToNat(m) ==
    IF Len(m) = 0 THEN 0 ELSE 10 * MagToNat(DropLast(m)) + m[Len(m)]

\* The iterations of `for _ in 0..line_count`.  Every iteration that does
\* not panic consumes at least two bytes, so a count beyond the buffer's
\* length runs as a count of Len(buf) + 1 does.
LoopCount(n, buf) ==
    IF n.neg THEN 0
    ELSE IF Len(n.mag) > 9 THEN Len(buf) + 1
    ELSE MagToNat(n.mag)

MissingLine == Err("InvalidInput:Error integer value")

(***************************************************************************)
(* parse_response                                                          *)
(***************************************************************************)
RECURSIVE parse_response(_)
RECURSIVE ArrayLoop(_, _, _, _)

\* the `for _ in 0..line_count` loop of the ARRAYS_BYTE branch
ArrayLoop(buf, pos, remaining, v) ==
    IF remaining = 0 THEN Ok(Arrays(v))
    ELSE LET first == SplitNext(buf, pos, LF)
         IN  IF ~first.some THEN Panic
             ELSE LET second == SplitNext(buf, first.pos, LF)
                  IN  IF ~second.some THEN Panic
                      ELSE LET elem == parse_response(
                                   first.bytes \o <<LF>> \o second.bytes \o <<LF>>)
                           IN  IF elem.kind # "Ok" THEN elem
                               ELSE ArrayLoop(buf, second.pos, remaining - 1,
                                              Append(v, elem.val))

IntegerBranch(buf, pos) ==
    LET l == LinesNext(buf, pos)
    IN  IF ~l.some THEN MissingLine
        ELSE IF l.res.kind # "Ok" THEN l.res
        ELSE LET n == ParseI64(l.res.val)
             IN  IF n.kind = "Ok" THEN Ok(Integers(n.val)) ELSE n

BulkStringBranch(buf, pos) ==
    LET l1 == LinesNext(buf, pos)
        size == IF ~l1.some THEN Ok([neg |-> FALSE, mag |-> <<0>>])
                ELSE IF l1.res.kind # "Ok" THEN l1.res
                ELSE ParseI32(l1.res.val)
    IN  IF size.kind # "Ok" THEN size
        ELSE LET l2 == LinesNext(buf, l1.pos)
             IN  IF ~l2.some THEN MissingLine
                 ELSE IF l2.res.kind # "Ok" THEN l2.res
                 ELSE Ok(BulkString(l2.res.val))

SimpleStringBranch(buf, pos) ==
    LET l == LinesNext(buf, pos)
    IN  IF ~l.some THEN MissingLine
        ELSE IF l.res.kind # "Ok" THEN l.res
        ELSE Ok(SimpleString(l.res.val))

ErrorStringBranch(buf, pos) ==
    LET l == LinesNext(buf, pos)
    IN  IF ~l.some THEN MissingLine
        ELSE IF l.res.kind # "Ok" THEN l.res
        ELSE Ok(Errors(l.res.val))

ArraysBranch(buf, pos) ==
    LET line == ReadLine(buf, pos)
    IN  IF line.res.kind # "Ok" THEN line.res
        ELSE LET count == ParseI64(FilterNumeric(line.res.val))
             IN  IF count.kind # "Ok" THEN count
                 ELSE ArrayLoop(buf, line.pos, LoopCount(count.val, buf), <<>>)

parse_response(buf) ==
    LET first_byte == IF Len(buf) = 0 THEN 0 ELSE buf[1]
        pos == IF Len(buf) = 0 THEN 0 ELSE 1
    IN  IF first_byte = INTEGER_BYTE THEN IntegerBranch(buf, pos)
        ELSE IF first_byte = BULK_STRING_BYTE THEN BulkStringBranch(buf, pos)
        ELSE IF first_byte = SIMPLE_STRING_BYTE THEN SimpleStringBranch(buf, pos)
        ELSE IF first_byte = ERROR_STRING_BYTE THEN ErrorStringBranch(buf, pos)
        ELSE IF first_byte = ARRAYS_BYTE THEN ArraysBranch(buf, pos)
        ELSE Err("InvalidInput:hui")

(***************************************************************************)
(* Cmd::create_command                                                     *)
(***************************************************************************)
RECURSIVE BulkFrames(_, _)
\* the `for arg in args` loop: "${len}\r\n{arg}\r\n" for each argument
BulkFrames(a, i) ==
    IF i > Len(a) THEN <<>>
    ELSE <<BULK_STRING_BYTE>> \o NatToBytes(Len(a[i])) \o CRLF \o a[i] \o CRLF
         \o BulkFrames(a, i + 1)

create_command(a) ==
    IF Len(a) = 1
    THEN <<SIMPLE_STRING_BYTE>> \o NatToBytes(Len(a[1])) \o CRLF \o a[1]
    ELSE <<ARRAYS_BYTE>> \o NatToBytes(Len(a)) \o CRLF \o BulkFrames(a, 1)

(***************************************************************************)
(* Bounds of the model.                                                    *)
(***************************************************************************)
\* arguments of one command, the operation name included
MaxArgs == 3
\* length of the arbitrary byte buffers handed to the decoder
MaxRawLen == 3
\* elements of the Array frames the server sends
MaxElems == 2
\* nesting depth of the Array frames the server sends
MaxDepth == 5
\* the Integer frames carry -MaxSmallInt..MaxSmallInt and the extremes
MaxSmallInt == 12

(***************************************************************************)
(* The environment: what callers pass and what a server may send.          *)
(***************************************************************************)
\* "PING", "SET"
CmdNames == {<<80, 73, 78, 71>>, <<83, 69, 84>>}
\* "", "k", "\n", "a\nb", "v\r"
ArgStrings == {<<>>, <<107>>, <<LF>>, <<97, LF, 98>>, <<118, CR>>}

I64Max == [neg |-> FALSE, mag |-> I64MaxMag]
I64Min == [neg |-> TRUE, mag |-> I64MinMag]

RECURSIVE NatToMag(_)
NatToMag(n) == IF n < 10 THEN <<n>> ELSE Append(NatToMag(n \div 10), n % 10)

IntVal(k) == [neg |-> k < 0, mag |-> NatToMag(IF k < 0 THEN 0 - k ELSE k)]

IntSamples ==
    {IntVal(k) : k \in (0 - MaxSmallInt)..MaxSmallInt}
    \cup {I64Max, I64Min,
          [neg |-> FALSE, mag |-> I32MinMag],
          [neg |-> TRUE, mag |-> <<9,9,9,9,9,9,9,9,9,9,9,9>>]}

\* i64::to_string
IntToBytes(n) ==
    (IF n.neg THEN <<MinusSign>> ELSE <<>>)
    \o [i \in 1..Len(n.mag) |-> Digit0 + n.mag[i]]

NullBulk == [tag |-> "NullBulk"]
NullArray == [tag |-> "NullArray"]
NoFrame == [tag |-> "NoFrame"]

\* The wire form of a frame, as a server writes it:
\*   '+' text CRLF | '-' text CRLF | ':' int CRLF
\*   '$' len CRLF payload CRLF | '$-1' CRLF | '*' count CRLF frames | '*-1' CRLF
RECURSIVE Wire(_)
RECURSIVE WireAll(_, _)
WireAll(v, i) == IF i > Len(v) THEN <<>> ELSE Wire(v[i]) \o WireAll(v, i + 1)

Wire(f) ==
    CASE f.tag = "SimpleString" -> <<SIMPLE_STRING_BYTE>> \o f.s \o CRLF
      [] f.tag = "Errors" -> <<ERROR_STRING_BYTE>> \o f.s \o CRLF
      [] f.tag = "Integers" -> <<INTEGER_BYTE>> \o IntToBytes(f.n) \o CRLF
      [] f.tag = "BulkString" ->
            <<BULK_STRING_BYTE>> \o NatToBytes(Len(f.s)) \o CRLF \o f.s \o CRLF
      [] f.tag = "NullBulk" -> <<BULK_STRING_BYTE, MinusSign, Digit0 + 1>> \o CRLF
      [] f.tag = "NullArray" -> <<ARRAYS_BYTE, MinusSign, Digit0 + 1>> \o CRLF
      [] f.tag = "Arrays" ->
            <<ARRAYS_BYTE>> \o NatToBytes(Len(f.v)) \o CRLF \o WireAll(f.v, 1)

\* "", "OK", "Error message" shortened to "Er m"
Texts == {<<>>, <<79, 75>>, <<69, 114, 32, 109>>}
\* "", "a", "Test", "-12", "\n", "a\nb", "\r\n", "v\r", a byte that is not UTF-8
Payloads ==
    {<<>>, <<97>>, <<84, 101, 115, 116>>, <<45, 49, 50>>, <<LF>>,
     <<97, LF, 98>>, <<CR, LF>>, <<118, CR>>, <<255>>}

LeafFrames ==
    {SimpleString(s) : s \in Texts} \cup {Errors(s) : s \in Texts}
    \cup {Integers(n) : n \in IntSamples}
    \cup {BulkString(s) : s \in Payloads}
    \cup {NullBulk, NullArray}

\* one frame of each kind, as the elements of Array frames
ElemFrames ==
    {SimpleString(<<79, 75>>), Errors(<<69, 114, 32, 109>>), Integers(IntVal(7)),
     BulkString(<<97>>), BulkString(<<>>), BulkString(<<97, LF, 98>>), NullBulk}

SeqsUpTo(S, n) == UNION {[1..k -> S] : k \in 0..n}

FlatArrays == {Arrays(v) : v \in SeqsUpTo(ElemFrames, MaxElems)}

RECURSIVE Nest(_)
\* d Array frames around one Integer frame
Nest(d) == IF d = 0 THEN Integers(IntVal(1)) ELSE Arrays(<<Nest(d - 1)>>)

NestedArrays ==
    {Nest(d) : d \in 2..MaxDepth}
    \cup {Arrays(<<Arrays(<<>>), BulkString(<<97>>)>>),
          Arrays(<<BulkString(<<97>>), Arrays(<<>>)>>)}

Frames == LeafFrames \cup FlatArrays \cup NestedArrays

\* the bytes of arbitrary buffers: the five tags, "0", "1", "a", CR, LF,
\* and 0xFF, which no UTF-8 text holds
RawAlphabet ==
    {BULK_STRING_BYTE, INTEGER_BYTE, SIMPLE_STRING_BYTE, ERROR_STRING_BYTE,
     ARRAYS_BYTE, Digit0, Digit0 + 1, 97, CR, LF, 255}

\* lines after ':' that are no decimal i64, and one with an explicit '+'
OddIntegerTexts ==
    {<<>>, <<MinusSign>>, <<PlusSign>>, <<49, 97>>, <<MinusSign, MinusSign, 49>>,
     <<49, 32>>, <<32, 49>>, <<49, CR>>, <<49, 255>>, <<PlusSign, 53>>,
     <<48, 48, 55>>, <<MinusSign, 48>>,
     IntToBytes([neg |-> FALSE, mag |-> I64MinMag]),
     IntToBytes([neg |-> TRUE, mag |-> <<9,2,2,3,3,7,2,0,3,6,8,5,4,7,7,5,8,0,9>>]),
     IntToBytes([neg |-> FALSE, mag |-> <<1,0,0,0,0,0,0,0,0,0,0,0,0,0,0,0,0,0,0,0>>])}

\* Array header lines with characters beyond ASCII: "1" and U+00B2,
\* "0" and U+00BD, U+0661, U+FF11, "1" and U+16130, U+11DE1, "2" U+16FF4
\* "3" (numeric), "1" and U+00E9, "1" and U+20AC (not numeric)
OddArrayCounts ==
    {<<49, 194, 178>>, <<48, 194, 189>>, <<217, 161>>, <<239, 188, 145>>,
     <<49, 240, 150, 132, 176>>, <<240, 145, 183, 161>>,
     <<50, 240, 150, 191, 180, 51>>,
     <<49, 195, 169>>, <<49, 226, 130, 172>>, <<194, 178>>}

\* "$1\r\na\r\n"
OneBulk == <<BULK_STRING_BYTE, 49, CR, LF, 97, CR, LF>>

RawBuffers ==
    SeqsUpTo(RawAlphabet, MaxRawLen)
    \cup {<<INTEGER_BYTE>> \o t \o CRLF : t \in OddIntegerTexts}
    \cup {<<ARRAYS_BYTE>> \o c \o CRLF : c \in OddArrayCounts}
    \cup {<<ARRAYS_BYTE>> \o c \o CRLF \o OneBulk : c \in OddArrayCounts}
    \cup {<<ARRAYS_BYTE, 49>> \o CRLF \o <<ARRAYS_BYTE>> \o c \o CRLF \o CRLF :
              c \in OddArrayCounts}

Prefix(s, k) == SubSeq(s, 1, k)

(***************************************************************************)
(* The client: Cmd::cmd, Cmd::arg, Cmd::execute over Client::execute.      *)
(***************************************************************************)
Init ==
    /\ pc = "idle"
    /\ args = <<>>
    /\ sent = <<>>
    /\ frame = NoFrame
    /\ reply = <<>>
    /\ buff = <<>>
    /\ result = NoResult

\* Cmd::cmd
CmdNew(name) ==
    /\ pc = "idle"
    /\ args' = <<name>>
    /\ pc' = "building"
    /\ UNCHANGED <<sent, frame, reply, buff, result>>

\* Cmd::arg
CmdArg(a) ==
    /\ pc = "building"
    /\ Len(args) < MaxArgs
    /\ args' = Append(args, a)
    /\ UNCHANGED <<pc, sent, frame, reply, buff, result>>

\* Cmd::execute up to the blocking read: create_command, then
\* Client::execute's write_all and its fresh buffer of BuffSize zero bytes
ExecuteSend ==
    /\ pc = "building"
    /\ sent' = create_command(args)
    /\ buff' = [i \in 1..BuffSize |-> FillByte]
    /\ pc' = "sent"
    /\ UNCHANGED <<args, frame, reply, result>>

\* write_all fails: `?` returns the io::Error
ExecuteSendFails ==
    /\ pc = "building"
    /\ result' = Err("io")
    /\ pc' = "failed"
    /\ UNCHANGED <<args, sent, frame, reply, buff>>

\* the server answers with one complete frame
ServerReply(f) ==
    /\ pc = "sent"
    /\ frame' = f
    /\ reply' = Wire(f)
    /\ pc' = "replied"
    /\ UNCHANGED <<args, sent, buff, result>>

\* Cmd::execute maps the decoder's error to ErrorKind::Other "Error"
ExecuteResult(r) == IF r.kind = "Err" THEN Err("Other:Error") ELSE r

\* The one read of Client::execute returns n bytes of the reply (the
\* stream delivers any non-empty part of it, at most the buffer's size);
\* the whole buffer goes to parse_response.
ExecuteRecv(n) ==
    /\ pc = "replied"
    /\ buff' = [i \in 1..BuffSize |-> IF i <= n THEN reply[i] ELSE buff[i]]
    /\ result' = ExecuteResult(parse_response(buff'))
    /\ pc' = "done"
    /\ UNCHANGED <<args, sent, frame, reply>>

\* the server closes the stream instead: read returns 0
ExecuteRecvEof ==
    /\ pc = "sent"
    /\ result' = ExecuteResult(parse_response(buff))
    /\ pc' = "done"
    /\ UNCHANGED <<args, sent, frame, reply, buff>>

\* read fails: `?` returns the io::Error
ExecuteRecvFails ==
    /\ pc \in {"sent", "replied"}
    /\ result' = Err("io")
    /\ pc' = "failed"
    /\ UNCHANGED <<args, sent, frame, reply, buff>>

MinNat(a, b) == IF a <= b THEN a ELSE b

\* the frames the server of the client model answers with
ServerFrames ==
    {SimpleString(<<79, 75>>), Integers(IntVal(7)), BulkString(<<97>>),
     BulkString(<<97, LF, 98>>), NullBulk, Arrays(<<>>),
     Arrays(<<BulkString(<<97>>)>>)}

Next ==
    \/ \E name \in CmdNames : CmdNew(name)
    \/ \E a \in ArgStrings : CmdArg(a)
    \/ ExecuteSend
    \/ ExecuteSendFails
    \/ \E f \in ServerFrames : ServerReply(f)
    \/ \E n \in 1..MinNat(Len(reply), BuffSize) : ExecuteRecv(n)
    \/ ExecuteRecvEof
    \/ ExecuteRecvFails

Spec == Init /\ [][Next]_vars

(***************************************************************************)
(* The decoder alone: parse_response applied to a buffer.                  *)
(***************************************************************************)
\* a frame of the server cut at any point, or an arbitrary buffer
InitDecode ==
    /\ pc = "input"
    /\ args = <<>>
    /\ sent = <<>>
    /\ result = NoResult
    /\ \/ \E f \in Frames : \E k \in 0..Len(Wire(f)) :
             /\ frame = f
             /\ reply = Wire(f)
             /\ buff = Prefix(Wire(f), k)
       \/ /\ frame = NoFrame
          /\ reply = <<>>
          /\ buff \in RawBuffers

Decode ==
    /\ pc = "input"
    /\ result' = parse_response(buff)
    /\ pc' = "parsed"
    /\ UNCHANGED <<args, sent, frame, reply, buff>>

NextDecode == Decode

SpecDecode == InitDecode /\ [][NextDecode]_vars

(***************************************************************************)
(* Encoder and decoder back to back: the command's bytes are decoded.      *)
(***************************************************************************)
Encode ==
    /\ pc = "building"
    /\ buff' = create_command(args)
    /\ pc' = "input"
    /\ UNCHANGED <<args, sent, frame, reply, result>>

NextCodec ==
    \/ \E name \in CmdNames : CmdNew(name)
    \/ \E a \in ArgStrings : CmdArg(a)
    \/ Encode
    \/ Decode

SpecCodec == Init /\ [][NextCodec]_vars

(***************************************************************************)
(* The claims.                                                             *)
(***************************************************************************)
\* the Array frame of BulkString frames that carries the arguments a
ArgsFrame(a) == Arrays([i \in 1..Len(a) |-> BulkString(a[i])])

RECURSIVE NoNulls(_)
\* a frame built of SimpleString, Error, Integer, BulkString and Array
\* frames only
NoNulls(f) ==
    /\ f.tag \notin {"NullBulk", "NullArray", "NoFrame"}
    /\ f.tag = "Arrays" => \A i \in 1..Len(f.v) : NoNulls(f.v[i])

\* the decoder was handed one whole frame of the server
WholeFrame == pc = "parsed" /\ frame # NoFrame /\ buff = reply

\* C1: for every non-empty argument list, of one argument too, the bytes
\* create_command produces are the Array frame "*n\r\n" followed by one
\* BulkString frame "$len\r\n<bytes>\r\n" per argument, in argument order.
C1_UniformArrayFraming ==
    pc = "sent" => sent = Wire(ArgsFrame(args))

\* C2: round trip: parse_response applied to the bytes of create_command
\* returns the Array of BulkStrings that equals the arguments, in order.
C2_RoundTrip ==
    (pc = "parsed" /\ Len(args) >= 1) => result = Ok(ArgsFrame(args))

\* C3: parse_response never panics: on every buffer, malformed and
\* truncated ones included, it returns Ok(value) or Err(error).
C3_NeverPanics ==
    pc = "parsed" => result.kind \in {"Ok", "Err"}

\* C4: a BulkString frame "$L\r\n<payload>\r\n" decodes to BulkString of
\* exactly its L payload bytes, whatever bytes they are (CR and LF too).
C4_BulkStringBinarySafe ==
    (WholeFrame /\ frame.tag = "BulkString") => result = Ok(BulkString(frame.s))

\* C5: no partial frame is returned as a value: a BulkString frame cut at
\* any point before its end (payload short, or the final CRLF missing, as
\* in "$4\r\nTest") decodes to an error, not to a value.
C5_NoPartialBulkString ==
    (pc = "parsed" /\ frame.tag = "BulkString" /\ Len(buff) < Len(reply))
        => result.kind = "Err"

\* C6: an Array frame "*count\r\n" followed by count complete sub-frames of
\* any kind (nested Arrays too) decodes to Arrays of the count decoded
\* sub-frames, in byte order.
C6_ArrayOfAnyFrames ==
    (WholeFrame /\ frame.tag = "Arrays" /\ NoNulls(frame)) => result = Ok(frame)

\* C7: "$-1\r\n" decodes to a null BulkString, which differs from what
\* "$0\r\n\r\n" decodes to, and "*-1\r\n" decodes to a null Array, which
\* differs from what "*0\r\n" decodes to.
C7_NullsAreValues ==
    /\ (WholeFrame /\ frame = NullBulk) =>
          /\ result = Ok(NullBulk)
          /\ result # parse_response(Wire(BulkString(<<>>)))
    /\ (WholeFrame /\ frame = NullArray) =>
          /\ result = Ok(NullArray)
          /\ result # parse_response(Wire(Arrays(<<>>)))

\* the buffer is ':' text CRLF with no line feed in the text
IsIntegerLine(b) ==
    /\ Len(b) >= 3
    /\ b[1] = INTEGER_BYTE
    /\ SubSeq(b, Len(b) - 1, Len(b)) = CRLF
    /\ \A i \in 2..(Len(b) - 2) : b[i] # LF

IntegerText(b) == SubSeq(b, 2, Len(b) - 2)

\* the digits of t without leading zeros
RECURSIVE Significant(_)
Significant(t) ==
    IF Len(t) > 1 /\ t[1] = Digit0 THEN Significant(Tail(t)) ELSE t

\* t is an optional sign and at least one decimal digit, and the number
\* lies in -2^63 .. 2^63 - 1
DecimalI64(t) ==
    LET signed == Len(t) > 0 /\ t[1] \in {PlusSign, MinusSign}
        digits == IF signed THEN Tail(t) ELSE t
        mag == [i \in 1..Len(Significant(digits)) |->
                    Significant(digits)[i] - Digit0]
    IN  /\ Len(digits) > 0
        /\ \A i \in 1..Len(digits) : IsDigit(digits[i])
        /\ MagLeq(mag, IF signed /\ t[1] = MinusSign THEN I64MinMag
                       ELSE I64MaxMag)

\* C8: for every i64 n (i64::MIN, i64::MAX, 0 and negatives included) the
\* bytes ':' decimal(n) CRLF decode to Integers(n); an Integer line whose
\* text is no decimal i64 (other characters, or out of range) decodes to an
\* error.
C8_IntegerDecoding ==
    /\ (WholeFrame /\ frame.tag = "Integers") => result = Ok(Integers(frame.n))
    /\ (pc = "parsed" /\ IsIntegerLine(buff) /\ ~DecimalI64(IntegerText(buff)))
          => result.kind = "Err"

\* i64::MIN was decoded from its frame
C8_Witness ==
    /\ WholeFrame
    /\ frame = Integers(I64Min)
    /\ buff = <<INTEGER_BYTE, MinusSign>>
              \o [i \in 1..19 |-> Digit0 + I64MinMag[i]] \o CRLF
    /\ result = Ok(Integers(I64Min))

\* first bytes that are none of the five tags
UnknownTags == {0, 97, CR, LF, 255}

\* C9: an empty buffer decodes to an error, a buffer whose first byte is no
\* tag decodes to an error, and the error for "no byte available" is not
\* the error for "unrecognized tag byte".
C9_EmptyIsNotUnknownTag ==
    /\ (pc = "parsed" /\ Len(buff) > 0 /\ buff[1] \in UnknownTags)
          => result.kind = "Err"
    /\ (pc = "parsed" /\ buff = <<>>) =>
          /\ result.kind = "Err"
          /\ \A b \in UnknownTags : result # parse_response(<<b>>)

\* C10: however the transport splits a complete reply into reads, execute
\* returns what decoding the whole reply at once returns.
C10_ExecuteDecodesWholeReply ==
    (pc = "done" /\ frame # NoFrame)
        => result = ExecuteResult(parse_response(reply))

====
